---- MODULE Spec2Model ----
\* Verification model of app.py (stock sync between a Google Sheet catalog
\* and the ACDC supplier site): the title matcher, the per-product sync loop,
\* and the sheet upsert.
EXTENDS Integers, Naturals, Sequences, FiniteSets, TLC

\* ---------------------------------------------------------------------------
\* Bounds
\* ---------------------------------------------------------------------------
MaxQueryLen == 3
MaxLabelLen == 2
MaxCands == 2

\* Characters of titles and labels (upper and lower case).
Chars == {"a", "A", "b"}

\* Default matching threshold 0.8 of find_matching_product, as a fraction.
ThresholdNum == 4
ThresholdDen == 5

\* ---------------------------------------------------------------------------
\* Strings and difflib.SequenceMatcher
\* ---------------------------------------------------------------------------
Min(x, y) == IF x < y THEN x ELSE y

StringsUpTo(n) == UNION {[1..k -> Chars] : k \in 0..n}

SeqsUpTo(S, n) == UNION {[1..k -> S] : k \in 0..n}

LowerChar(c) == IF c = "A" THEN "a" ELSE c

\* str.lower()
Lower(s) == [i \in 1..Len(s) |-> LowerChar(s[i])]

\* SequenceMatcher.find_longest_match without junk (no autojunk below 200
\* chars): the longest block a[i..i+k) = b[j..j+k) in the window, earliest in
\* a, then earliest in b; (alo, blo, 0) if none.
FindLongestMatch(a, b, alo, ahi, blo, bhi) ==
  LET Blocks == {t \in (alo..(ahi-1)) \X (blo..(bhi-1)) \X (1..Min(ahi - alo, bhi - blo)) :
                   /\ t[1] + t[3] <= ahi
                   /\ t[2] + t[3] <= bhi
                   /\ \A d \in 0..(t[3]-1) : a[t[1]+d+1] = b[t[2]+d+1]}
      Better(t, u) == \/ t[3] > u[3]
                      \/ t[3] = u[3] /\ t[1] < u[1]
                      \/ t[3] = u[3] /\ t[1] = u[1] /\ t[2] <= u[2]
  IN IF Blocks = {} THEN <<alo, blo, 0>>
     ELSE CHOOSE t \in Blocks : \A u \in Blocks : Better(t, u)

\* Sum of the sizes of SequenceMatcher.get_matching_blocks over a window.
RECURSIVE MatchCount(_, _, _, _, _, _)
MatchCount(a, b, alo, ahi, blo, bhi) ==
  LET t == FindLongestMatch(a, b, alo, ahi, blo, bhi)
      i == t[1]
      j == t[2]
      k == t[3]
  IN IF k = 0 THEN 0
     ELSE k
          + (IF alo < i /\ blo < j THEN MatchCount(a, b, alo, i, blo, j) ELSE 0)
          + (IF i + k < ahi /\ j + k < bhi THEN MatchCount(a, b, i + k, ahi, j + k, bhi) ELSE 0)

\* SequenceMatcher.ratio() as the fraction <<num, den>>: 2*M/T, or 1.0 when T = 0.
SeqRatio(a, b) ==
  IF Len(a) + Len(b) = 0 THEN <<1, 1>>
  ELSE <<2 * MatchCount(a, b, 0, Len(a), 0, Len(b)), Len(a) + Len(b)>>

\* ACDCStockScraper.similarity_ratio
similarity_ratio(a, b) == SeqRatio(Lower(a), Lower(b))

RatioGt(r, s) == r[1] * s[2] > s[1] * r[2]
RatioGe(r, s) == r[1] * s[2] >= s[1] * r[2]

Threshold == <<ThresholdNum, ThresholdDen>>

\* The loop of find_matching_product: index (0 = None) and ratio of the best match.
RECURSIVE MatchLoop(_, _, _, _, _)
MatchLoop(q, cands, idx, best, bestRatio) ==
  IF idx > Len(cands) THEN <<best, bestRatio>>
  ELSE LET r == similarity_ratio(q, cands[idx])
       IN IF RatioGt(r, bestRatio) /\ RatioGe(r, Threshold)
          THEN MatchLoop(q, cands, idx + 1, idx, r)
          ELSE MatchLoop(q, cands, idx + 1, best, bestRatio)

\* ACDCStockScraper.find_matching_product over the materialised candidates
find_matching_product(q, cands) == MatchLoop(q, cands, 1, 0, <<0, 1>>)

\* ---------------------------------------------------------------------------
\* Google Sheet values (GoogleSheetsHandler)
\* ---------------------------------------------------------------------------
SkuChars == {"0", "7", "A"}

Digits == {"0", "7"}

RECURSIVE StripZeros(_)
StripZeros(s) == IF Len(s) > 1 /\ s[1] = "0" THEN StripZeros(Tail(s)) ELSE s

\* A SKU written with valueInputOption USER_ENTERED and read back as the
\* formatted value: an all-digit text is stored as a number, which drops its
\* leading zeros; any other text is kept as written.
UserEntered(s) ==
  IF Len(s) > 0 /\ \A i \in 1..Len(s) : s[i] \in Digits THEN StripZeros(s) ELSE s

\* int() of the on-hand texts a sheet cell can hold in this model; texts
\* outside the domain ("unknown", "") raise ValueError.
IntOf == [s \in {"0", "3", "5"} |-> CASE s = "0" -> 0 [] s = "3" -> 3 [] s = "5" -> 5]

\* Index of the first data row whose SKU cell (column I) equals sku; 0 if none.
\* Row 1 is the header, whose SKU cell "SKU" is outside the SKU domain here;
\* an empty cell reads back as [] and never matches.
FindRow(sheet_, sku) ==
  LET hits == {i \in 1..Len(sheet_) : sheet_[i].sku /= <<>> /\ sheet_[i].sku = sku}
  IN IF hits = {} THEN 0 ELSE CHOOSE i \in hits : \A j \in hits : i <= j

\* GoogleSheetsHandler.update_stock_levels(sku, shopify_data, acdc_stock):
\* <<sheet after the call, return value, index of the row written (0 = none)>>.
\* apiFails: one of the Sheets API calls raises (nothing is written).
update_stock_levels(sheet_, sku, data, acdc, ts, apiFails) ==
  LET idx == FindRow(sheet_, sku)
      onhand == IF "on_hand" \in DOMAIN data THEN data.on_hand ELSE "0"
  IN IF apiFails \/ onhand \notin DOMAIN IntOf THEN <<sheet_, FALSE, 0>>
     ELSE LET differ == IntOf[onhand] /= acdc
              diff == IF differ THEN "Yes" ELSE "No"
              act == IF differ THEN "Check stock levels" ELSE ""
          IN IF idx = 0
             THEN <<Append(sheet_, [handle |-> data.handle, title |-> data.title,
                                    sku |-> UserEntered(sku), other |-> "",
                                    onhand |-> onhand, acdc |-> acdc, diff |-> diff,
                                    checked |-> ts, action |-> act, notes |-> ""]),
                    TRUE, Len(sheet_) + 1>>
             ELSE <<[sheet_ EXCEPT ![idx] = [@ EXCEPT !.acdc = acdc, !.diff = diff,
                                                      !.checked = ts, !.action = act,
                                                      !.notes = ""]],
                    TRUE, idx>>

\* ---------------------------------------------------------------------------
\* State
\* ---------------------------------------------------------------------------
VARIABLES query, cands, mres, mpc,
          sheet, clock,
          usku, udata, uacdc, upc, uok, uidx, ufail, sheet0, sheet1,
          products, pos, spc, outcome, fetchOk, entryLog

matchVars == <<query, cands, mres, mpc>>

upsertVars == <<usku, udata, uacdc, upc, uok, uidx, ufail, sheet0, sheet1>>

syncVars == <<products, pos, spc, outcome, fetchOk, entryLog>>

vars == <<query, cands, mres, mpc, sheet, clock, usku, udata, uacdc, upc, uok, uidx, ufail, sheet0, sheet1,
          products, pos, spc, outcome, fetchOk, entryLog>>

MatchIdle ==
  /\ query = <<>> /\ cands = <<>> /\ mres = <<0, <<0, 1>>>> /\ mpc = "idle"

UpsertIdle ==
  /\ usku = <<>> /\ udata = [handle |-> "", title |-> <<>>] /\ uacdc = 0
  /\ upc = 0 /\ uok = <<>> /\ uidx = <<>> /\ ufail = <<>> /\ sheet0 = <<>> /\ sheet1 = <<>>

SyncIdle ==
  /\ products = <<>> /\ pos = 1 /\ spc = "start" /\ outcome = "none"
  /\ fetchOk = TRUE /\ entryLog = <<>>

\* ---------------------------------------------------------------------------
\* Matcher specification
\* ---------------------------------------------------------------------------
MatchInit ==
  /\ query \in StringsUpTo(MaxQueryLen)
  /\ cands \in SeqsUpTo(StringsUpTo(MaxLabelLen), MaxCands)
  /\ mres = <<0, <<0, 1>>>>
  /\ mpc = "idle"
  /\ sheet = <<>> /\ clock = 0
  /\ UpsertIdle
  /\ SyncIdle

Match ==
  /\ mpc = "idle"
  /\ mres' = find_matching_product(query, cands)
  /\ mpc' = "done"
  /\ UNCHANGED <<query, cands, sheet, clock>>
  /\ UNCHANGED upsertVars
  /\ UNCHANGED syncVars

MatchNext == Match

MatchSpec == MatchInit /\ [][MatchNext]_vars

\* ---------------------------------------------------------------------------
\* Upsert specification: update_stock_levels called twice with the same
\* arguments on a sheet of existing rows
\* ---------------------------------------------------------------------------
MaxRows == 2
MaxCalls == 2

Skus == {<<"A">>, <<"7">>, <<"0", "7">>}

RowTitles == {<<"a", "b">>}

ExistingRows ==
  [handle : {"h"}, title : RowTitles, sku : {<<"A">>, <<"7">>}, other : {"x"},
   onhand : {"5"}, acdc : {5}, diff : {"No"}, checked : {0}, action : {""},
   notes : {"", "call supplier"}]

ShopifyData ==
  [handle : {"h"}, title : RowTitles, on_hand : {"5", "3", "unknown"}]

AcdcValues == {3, 5}

UpsertInit ==
  /\ sheet \in SeqsUpTo(ExistingRows, MaxRows)
  /\ clock = 0
  /\ usku \in Skus
  /\ udata \in ShopifyData
  /\ uacdc \in AcdcValues
  /\ upc = 0 /\ uok = <<>> /\ uidx = <<>> /\ ufail = <<>>
  /\ sheet0 = sheet /\ sheet1 = <<>>
  /\ MatchIdle
  /\ SyncIdle

\* One call of update_stock_levels with the fixed arguments.
UpsertCall ==
  /\ upc < MaxCalls
  /\ \E fails \in BOOLEAN :
       LET r == update_stock_levels(sheet, usku, udata, uacdc, clock + 1, fails)
       IN /\ sheet' = r[1]
          /\ uok' = Append(uok, r[2])
          /\ uidx' = Append(uidx, r[3])
          /\ ufail' = Append(ufail, fails)
          /\ sheet1' = IF upc = 0 THEN r[1] ELSE sheet1
  /\ clock' = clock + 1
  /\ upc' = upc + 1
  /\ UNCHANGED <<usku, udata, uacdc, sheet0>>
  /\ UNCHANGED matchVars
  /\ UNCHANGED syncVars

UpsertNext == UpsertCall

UpsertSpec == UpsertInit /\ [][UpsertNext]_vars

\* ---------------------------------------------------------------------------
\* Sync specification: one run of sync_stock over the catalog in the sheet
\* ---------------------------------------------------------------------------
MaxCatalog == 2

CatalogRows ==
  [handle : {"h"}, title : RowTitles, sku : {<<"A">>, <<"7">>}, other : {"x"},
   onhand : {"5"}, acdc : {5}, diff : {"No"}, checked : {0}, action : {""},
   notes : {""}]

\* The entry log records an input only when it affected the branch taken.
\* Product-title texts the supplier search page can show for a catalog title.
SearchResults == {<<>>, <<<<"A", "b">>>>, <<<<"b">>>>}

\* What the supplier site does for one product: nothing wrong, driver.get of
\* the search page raises, driver.get of the product page raises, or the
\* stock table / stock status does not appear (WebDriverWait timeout).
Faults == {"none", "search_unavailable", "fetch_unavailable", "no_table"}

\* Quantity texts of the Edenvale and Germiston rows of the stock table;
\* "None" when the branch is not in the table.
ReadingPairs == {<<"3", "0">>, <<"3", "unparseable">>, <<"None", "3">>}

EntryRaisesProductPage(path) == path = "fetch_unavailable"

\* The try/except at lines 360/389-391 catches every exception of an entry.
EntryRaises(path) == FALSE

ProcessEntryZeroOnNoMatch(p, cs, f, rd, wf, sh, ts) ==
  LET base == [sheet |-> sh, path |-> "", report |-> "", err |-> FALSE,
               upserted |-> FALSE, total |-> 0, writeOk |-> FALSE]
      m == find_matching_product(p.title, cs)[1]
      zero == update_stock_levels(sh, p.sku,
                [handle |-> p.handle, title |-> p.title, on_hand |-> p.onhand], 0, ts, wf)
  IN IF f = "search_unavailable"
     THEN [base EXCEPT !.path = "search_unavailable", !.report = "error", !.err = TRUE]
     ELSE IF m = 0
     THEN [base EXCEPT !.sheet = zero[1], !.path = "nomatch", !.report = "no_data",
                       !.upserted = TRUE, !.writeOk = zero[2]]
     ELSE [base EXCEPT !.path = "upserted", !.report = "updated"]

\* Body of the for-loop of sync_stock (lines 360-391) for one product row,
\* get_stock_levels included. path names the branch the code takes.
ProcessEntry(p, cs, f, rd, wf, sh, ts) ==
  LET base == [sheet |-> sh, path |-> "", report |-> "", err |-> FALSE,
               upserted |-> FALSE, total |-> 0, writeOk |-> FALSE]
      m == find_matching_product(p.title, cs)[1]
  IN IF f = "search_unavailable"
     THEN [base EXCEPT !.path = "search_unavailable", !.report = "error", !.err = TRUE]
     ELSE IF m = 0
     THEN [base EXCEPT !.path = "nomatch", !.report = "no_data"]
     ELSE IF f = "fetch_unavailable"
     THEN [base EXCEPT !.path = "fetch_unavailable", !.report = "error", !.err = TRUE]
     ELSE IF f = "no_table"
     THEN [base EXCEPT !.path = "no_table", !.report = "no_data", !.err = TRUE]
     ELSE IF rd[1] \notin DOMAIN IntOf \/ rd[2] \notin DOMAIN IntOf
     THEN [base EXCEPT !.path = "parse_error", !.report = "error", !.err = TRUE]
     ELSE LET total == IntOf[rd[1]] + IntOf[rd[2]]
              u == update_stock_levels(sh, p.sku,
                     [handle |-> p.handle, title |-> p.title, on_hand |-> p.onhand],
                     total, ts, wf)
          IN [sheet |-> u[1], path |-> "upserted", report |-> "updated", err |-> ~u[2],
              upserted |-> TRUE, total |-> total, writeOk |-> u[2]]

SyncInit ==
  /\ sheet \in SeqsUpTo(CatalogRows, MaxCatalog)
  /\ clock = 0
  /\ SyncIdle
  /\ MatchIdle
  /\ UpsertIdle

\* sync_stock lines 347-357: build the sheets handler and the scraper (either
\* may raise, which re-raises at line 395), then get_all_products, which
\* returns [] when the read of A2:V raises.
SyncStart ==
  /\ spc = "start"
  /\ \E initOk, readOk \in BOOLEAN :
       IF ~initOk
       THEN /\ spc' = "done" /\ outcome' = "raised"
            /\ UNCHANGED <<products, fetchOk>>
       ELSE /\ products' = IF readOk THEN sheet ELSE <<>>
            /\ fetchOk' = readOk
            /\ spc' = "loop"
            /\ UNCHANGED outcome
  /\ UNCHANGED <<sheet, clock, pos, entryLog>>
  /\ UNCHANGED matchVars
  /\ UNCHANGED upsertVars

\* One iteration of the for-loop over the products.
SyncEntry ==
  /\ spc = "loop"
  /\ pos <= Len(products)
  /\ \E cs \in SearchResults, f \in Faults, rd \in ReadingPairs, wf \in BOOLEAN :
       LET r == ProcessEntry(products[pos], cs, f, rd, wf, sheet, clock + 1)
       IN /\ sheet' = r.sheet
          /\ entryLog' = Append(entryLog,
                 [row |-> pos, cands |-> cs,
                  fault |-> IF r.path = "nomatch" THEN "unused" ELSE f,
                  readings |-> IF r.path \in {"parse_error", "upserted"} THEN rd ELSE <<>>,
                  writeFails |-> r.path = "upserted" /\ wf,
                  path |-> r.path, report |-> r.report, err |-> r.err,
                  upserted |-> r.upserted, total |-> r.total, writeOk |-> r.writeOk,
                  before |-> sheet, after |-> r.sheet])
          /\ IF EntryRaises(r.path)
             THEN spc' = "done" /\ outcome' = "raised"
             ELSE UNCHANGED <<spc, outcome>>
  /\ clock' = clock + 1
  /\ pos' = pos + 1
  /\ UNCHANGED <<products, fetchOk>>
  /\ UNCHANGED matchVars
  /\ UNCHANGED upsertVars

\* The loop ends and sync_stock returns normally (scraper.close in finally).
SyncEnd ==
  /\ spc = "loop"
  /\ pos > Len(products)
  /\ spc' = "done"
  /\ outcome' = "ok"
  /\ UNCHANGED <<sheet, clock, products, pos, fetchOk, entryLog>>
  /\ UNCHANGED matchVars
  /\ UNCHANGED upsertVars

SyncNext == SyncStart \/ SyncEntry \/ SyncEnd

SyncSpec == SyncInit /\ [][SyncNext]_vars

\* ---------------------------------------------------------------------------
\* Claim C5
\* ---------------------------------------------------------------------------
MaxRatioOf(q, cs) ==
  CHOOSE r \in {similarity_ratio(q, cs[i]) : i \in 1..Len(cs)} :
    \A i \in 1..Len(cs) : RatioGe(r, similarity_ratio(q, cs[i]))

ClaimedMatch(q, cs) ==
  IF q = <<>> \/ cs = <<>> THEN 0
  ELSE LET m == MaxRatioOf(q, cs)
       IN IF ~RatioGe(m, Threshold) THEN 0
          ELSE CHOOSE i \in 1..Len(cs) :
                 /\ RatioGe(similarity_ratio(q, cs[i]), m)
                 /\ \A j \in 1..(i-1) : RatioGt(m, similarity_ratio(q, cs[j]))

\* C5: find_matching_product returns the first candidate with the strictly
\* highest case-insensitive ratio when that ratio reaches the threshold, and
\* None when the best ratio is below it, the candidate list is empty or the
\* query is empty; a returned match has threshold <= ratio <= 1.
C5_MatcherContract ==
  mpc = "done" =>
    /\ mres[1] = ClaimedMatch(query, cands)
    /\ mres[1] /= 0 => RatioGe(mres[2], Threshold) /\ mres[2][1] <= mres[2][2]

\* ---------------------------------------------------------------------------
\* Claims C4, C7, C10 (update_stock_levels)
\* ---------------------------------------------------------------------------
WithoutTimestamp(s) == [i \in 1..Len(s) |-> [s[i] EXCEPT !.checked = 0]]

\* C4: two successful calls of update_stock_levels with identical arguments
\* leave the sheet as one call does, apart from the Last Checked timestamp
\* (no duplicate row for the SKU).
C4_UpsertIdempotent ==
  upc = 2 /\ uok = <<TRUE, TRUE>> => WithoutTimestamp(sheet) = WithoutTimestamp(sheet1)

\* C7: after a call the Sheets API accepted, the row of the SKU has Stock
\* Difference "Yes" iff the previous on-hand value is "unknown" or differs
\* from the new total, and Action Required is non-empty exactly then.
C7_ChangedFlag ==
  upc >= 1 /\ ufail[1] = FALSE =>
    /\ uidx[1] /= 0
    /\ LET r == sheet1[uidx[1]]
       IN /\ r.diff = "Yes" <=> (udata.on_hand = "unknown" \/ IntOf[udata.on_hand] /= uacdc)
          /\ r.action /= "" <=> r.diff = "Yes"

StockFields == {"acdc", "diff", "checked", "action"}

\* C10: a successful call on an existing row changes only the stock fields
\* (ACDC Stock, Stock Difference, Last Checked, Action Required) of that row;
\* a call for a new SKU appends exactly one row and leaves the others as they were.
C10_UpsertFrame ==
  upc >= 1 /\ uok[1] = TRUE =>
    LET i == uidx[1]
    IN IF i <= Len(sheet0)
       THEN /\ Len(sheet1) = Len(sheet0)
            /\ \A j \in 1..Len(sheet0) : j /= i => sheet1[j] = sheet0[j]
            /\ \A f \in DOMAIN sheet0[i] \ StockFields : sheet1[i][f] = sheet0[i][f]
       ELSE /\ Len(sheet1) = Len(sheet0) + 1
            /\ \A j \in 1..Len(sheet0) : sheet1[j] = sheet0[j]
            /\ i = Len(sheet1)

\* ---------------------------------------------------------------------------
\* Claims C2, C3, C6, C8, C9 (sync_stock)
\* ---------------------------------------------------------------------------
ExtractionOrSourceFailures == {"search_unavailable", "fetch_unavailable", "no_table"}

\* C2: when a run over a non-empty catalog ends, every product was processed
\* and the run did not abort, even when some entry hit an extraction or
\* source failure; such an entry is logged as an error and not reported updated.
C2_EntryIsolation ==
  spc = "done" /\ Len(products) > 0 =>
    /\ outcome = "ok"
    /\ Len(entryLog) = Len(products)
    /\ \A k \in 1..Len(entryLog) :
         entryLog[k].path \in ExtractionOrSourceFailures =>
           entryLog[k].err /\ entryLog[k].report /= "updated"

C2_Witness ==
  /\ spc = "done"
  /\ Len(products) = 2
  /\ Len(entryLog) = 2
  /\ entryLog[1].path \in ExtractionOrSourceFailures
  /\ entryLog[2].path = "upserted"

\* C3: an entry whose title matches no candidate (also when the search
\* returns none) issues no upsert, leaves the sheet as it was, is reported
\* as "No stock data found" without an error, and the previous on-hand value
\* of its row is unchanged when the run ends.
C3_NoMatchNoUpsert ==
  /\ \A k \in 1..Len(entryLog) :
       entryLog[k].path = "nomatch" =>
         /\ ~entryLog[k].upserted
         /\ entryLog[k].after = entryLog[k].before
         /\ entryLog[k].report = "no_data"
         /\ ~entryLog[k].err
  /\ spc = "done" =>
       \A k \in 1..Len(entryLog) :
         entryLog[k].path = "nomatch" =>
           sheet[entryLog[k].row].onhand = products[entryLog[k].row].onhand

C3_Witness ==
  /\ spc = "done"
  /\ \E k \in 1..Len(entryLog) : entryLog[k].path = "nomatch" /\ entryLog[k].cands = <<>>
  /\ \E k \in 1..Len(entryLog) : entryLog[k].path = "nomatch" /\ entryLog[k].cands /= <<>>

ReadingValue(q) == IF q \in DOMAIN IntOf THEN IntOf[q] ELSE 0

Aggregate(rd) == ReadingValue(rd[1]) + ReadingValue(rd[2])

\* C6: for a matched entry whose page reads fine, a missing or unparseable
\* quantity contributes 0 and the entry is upserted with the sum of the
\* parseable quantities.
C6_AggregateAbsentAsZero ==
  \A k \in 1..Len(entryLog) :
    entryLog[k].fault = "none" =>
      entryLog[k].path = "upserted" /\ entryLog[k].total = Aggregate(entryLog[k].readings)

\* C8: when reading the catalog fails, the run ends by raising to its caller
\* and processes no entry.
C8_FetchFailureFatal ==
  spc = "done" /\ ~fetchOk => outcome = "raised" /\ entryLog = <<>>

\* C9: an entry whose sheet write fails is logged as an error and not
\* reported as updated, and the run goes on to the remaining entries.
C9_WriteFailureCounted ==
  /\ \A k \in 1..Len(entryLog) :
       entryLog[k].upserted /\ ~entryLog[k].writeOk =>
         entryLog[k].err /\ entryLog[k].report /= "updated"
  /\ spc = "done" /\ Len(products) > 0 => Len(entryLog) = Len(products)

====
